---- MODULE Spec2Model ----
(***************************************************************************)
(* RasterIO (RasterIO_Arc10.6.py): the windowed strategy RasterIOfull      *)
(* (getValue / setValue / save with its per-tile worker processes), the    *)
(* facade's checkMatch, and the tile layout of save().                     *)
(*                                                                         *)
(* Map coordinates are integers (a cell is meanCellWidth x meanCellHeight  *)
(* map units); a raster file on disk is a record                           *)
(*   [xmin, ymin, ncols, nrows, a, nodata]                                 *)
(* whose array a is indexed by <<row, col>>, row 0 being the top row, and  *)
(* whose cells equal to nodata are its NoData cells.                       *)
(***************************************************************************)
EXTENDS Integers, Sequences, FiniteSets, TLC

\* ------------------------------------------------------------ bounds
\* API calls (getValue, setValue, save) issued in one behaviour.
MaxOps == 5

\* ------------------------------------------------- program constants
\* RasterIOfull.blocksize (4096 in the source, scaled down).
blocksize == 2
\* The default NoData value of a raster to create.
default == -255
\* Descriptor of the raster given to the constructor.
meanCellWidth == 2
meanCellHeight == 3
XMin == 10
YMin == 20
noDataValue == 0

\* (width, height) of the raster given to the constructor.
GridSizes == {<<1, 2>>, <<3, 1>>, <<1, 3>>}
\* Values a caller passes to setValue.
Values == {1, 2}

Max(a, b) == IF a >= b THEN a ELSE b
Min(a, b) == IF a <= b THEN a ELSE b

\* ------------------------------------------------ arcpy collaborators
\* The array of an existing raster: the source raster the caller opens.
SourceArray(width, height) ==
    [p \in (0 .. height - 1) \X (0 .. width - 1) |-> (p[1] + 2 * p[2]) % 3]

SourceFile(width, height) ==
    [xmin |-> XMin, ymin |-> YMin, ncols |-> width, nrows |-> height,
     a |-> SourceArray(width, height), nodata |-> noDataValue]

\* arcpy.Raster(path): the descriptor read when the object is created.
Raster(path, file) ==
    [path |-> path, width |-> file.ncols, height |-> file.nrows,
     XMin |-> file.xmin, YMin |-> file.ymin,
     YMax |-> file.ymin + file.nrows * meanCellHeight,
     noDataValue |-> file.nodata]

\* arcpy.RasterToNumPyArray(raster, Point(mx, my), ncols, nrows, nodata_to_value):
\* the ncols x nrows cells whose lower left corner is (mx, my); the file's NoData
\* cells, and cells outside the file, come back as nodata_to_value.
RasterToNumPyArray(file, mx, my, ncols, nrows, nodata_to_value) ==
    LET col0 == (mx - file.xmin) \div meanCellWidth
        row0 == file.nrows - ((my - file.ymin) \div meanCellHeight) - nrows
        cell(i, j) ==
            IF /\ row0 + i \in 0 .. file.nrows - 1
               /\ col0 + j \in 0 .. file.ncols - 1
               /\ file.a[<<row0 + i, col0 + j>>] # file.nodata
            THEN file.a[<<row0 + i, col0 + j>>]
            ELSE nodata_to_value
    IN  [nrows |-> nrows, ncols |-> ncols,
         a |-> [p \in (0 .. nrows - 1) \X (0 .. ncols - 1) |-> cell(p[1], p[2])]]

\* arcpy.NumPyArrayToRaster(array, Point(mx, my), cw, ch, value_to_nodata)
NumPyArrayToRaster(array, mx, my, value_to_nodata) ==
    [xmin |-> mx, ymin |-> my, ncols |-> array.ncols, nrows |-> array.nrows,
     a |-> array.a, nodata |-> value_to_nodata]

\* The cell of a file that covers the map-unit cell whose lower left corner is
\* (x, y): <<TRUE, value>>, or <<FALSE, 0>> outside the file or on NoData.
FileCellAt(file, x, y) ==
    LET j == (x - file.xmin) \div meanCellWidth
        i == file.nrows - 1 - ((y - file.ymin) \div meanCellHeight)
    IN  IF /\ x >= file.xmin /\ y >= file.ymin
           /\ i \in 0 .. file.nrows - 1 /\ j \in 0 .. file.ncols - 1
           /\ file.a[<<i, j>>] # file.nodata
        THEN <<TRUE, file.a[<<i, j>>]>>
        ELSE <<FALSE, 0>>

RECURSIVE LastCovering(_, _, _, _)
\* Mosaic method LAST: the value of the last file of the list with data there.
LastCovering(files, x, y, fill) ==
    IF files = <<>> THEN fill
    ELSE LET hit == FileCellAt(files[Len(files)], x, y)
         IN  IF hit[1] THEN hit[2]
             ELSE LastCovering(SubSeq(files, 1, Len(files) - 1), x, y, fill)

\* arcpy.MosaicToNewRaster_management(files, ...): one raster over the union of
\* the input extents.
MosaicToNewRaster(files) ==
    LET idx == 1 .. Len(files)
        x0 == CHOOSE m \in {files[k].xmin : k \in idx} :
                  \A k \in idx : m <= files[k].xmin
        y0 == CHOOSE m \in {files[k].ymin : k \in idx} :
                  \A k \in idx : m <= files[k].ymin
        right(f) == f.xmin + f.ncols * meanCellWidth
        top(f) == f.ymin + f.nrows * meanCellHeight
        x1 == CHOOSE m \in {right(files[k]) : k \in idx} :
                  \A k \in idx : m >= right(files[k])
        y1 == CHOOSE m \in {top(files[k]) : k \in idx} :
                  \A k \in idx : m >= top(files[k])
        nc == (x1 - x0) \div meanCellWidth
        nr == (y1 - y0) \div meanCellHeight
        nd == files[1].nodata
    IN  [xmin |-> x0, ymin |-> y0, ncols |-> nc, nrows |-> nr,
         a |-> [p \in (0 .. nr - 1) \X (0 .. nc - 1) |->
                  LastCovering(files, x0 + p[2] * meanCellWidth,
                               y0 + (nr - 1 - p[1]) * meanCellHeight, nd)],
         nodata |-> nd]

\* ------------------------------------------------------- tile layout
RECURSIVE Range(_, _, _)
\* Python's range(start, stop, step), step > 0, as a sequence.
Range(start, stop, step) ==
    IF start >= stop THEN <<>>
    ELSE <<start>> \o Range(start + step, stop, step)

\* The (x, y) of the passes of save()'s loops, in order:
\* for x in range(0, width, bs): for y in range(0, height, bs)
TileOrigins(width, height, bs) ==
    LET xs == Range(0, width, bs)
        ys == Range(0, height, bs)
    IN  [k \in 1 .. Len(xs) * Len(ys) |->
           <<xs[((k - 1) \div Len(ys)) + 1], ys[((k - 1) % Len(ys)) + 1]>>]

\* TileLX without the clipping at the raster's right edge.
TileLXUnclipped(tx, width, bs) == tx + bs

\* TileLY without the clipping at the raster's bottom edge.
TileLYUnclipped(ty, height, bs) == ty + bs

\* The worker's lx and ly: the lower right cell of the tile, exclusive.
TileLX(tx, width, bs) == Min(tx + bs, width)
TileLY(ty, height, bs) == Min(ty + bs, height)

\* The worker's mx and my: the lower left corner of the tile, in map units.
TileMX(xmin, tx) == xmin + tx * meanCellWidth

\* TileMY without the clamp at the raster's bottom edge.
TileMYUnclamped(ymin, ymax, ty, bs) == ymax - (bs + ty) * meanCellHeight

TileMY(ymin, ymax, ty, bs) == Max(ymin, ymax - (bs + ty) * meanCellHeight)

\* InTile with the tile's first row and column left out.
InTileStrict(row, col, tx, ty, lx, ly) ==
    (row < ly /\ row > ty) /\ (col < lx /\ col > tx)

\* The worker's test of a dict entry against its tile.
InTile(row, col, tx, ty, lx, ly) ==
    (row < ly /\ row >= ty) /\ (col < lx /\ col >= tx)

\* ------------------------------------------------------------- state
VARIABLES
    rasterlike,   \* self.rasterlike: descriptor of the constructor's raster
    raster,       \* self.raster: <<>> (None) or <<descriptor>>
    nodata,       \* self.nodata
    fileout,      \* self.fileout: path of the output file
    block,        \* self.block: [state, nrows, ncols, a], the read window
    xblock,       \* self.xblock
    yblock,       \* self.yblock
    dict,         \* self.dict: row -> (col -> value)
    dictsize,     \* self.dictsize
    disk,         \* the raster files on disk: path -> file
    pc,           \* "idle", or the step save() is at: "tiles", "publish"
    caller,       \* who called save(): "save" (the user) or "setValue"
    picklefile,   \* the pickled dict of the running save(): <<>> or <<dict>>
    filelist,     \* save(): the tile files written so far
    call,         \* the API call running or last finished
    ret,          \* what it returned: [kind, v, error]
    ops,          \* API calls issued
    everSet,      \* history: the cells ever passed to setValue
    flushed,      \* history: <<dict>> written by the save() that just finished
    prevOut,      \* history: <<file>> at fileout when the last save() started
    assembledBy,  \* history: the last save() ran "copy" or "mosaic"
    orphans,      \* scratch files a failed save() left behind
    aux,          \* state of SpecTiles, SpecMatch, SpecOrder; unused in Spec
    saves         \* history: the save() calls that returned in a row

vars == <<rasterlike, raster, nodata, fileout, block, xblock, yblock, dict,
          dictsize, disk, pc, caller, picklefile, filelist, call, ret, ops,
          everSet, flushed, prevOut, assembledBy, orphans, aux, saves>>

None == <<>>
EmptyRow == [c \in {} |-> 0]
EmptyDict == [r \in {} |-> EmptyRow]
NoBlock == [state |-> "none", nrows |-> 0, ncols |-> 0, a |-> EmptyRow]
DeletedBlock == [state |-> "deleted", nrows |-> 0, ncols |-> 0, a |-> EmptyRow]

NoReturn == [kind |-> "none", v |-> 0, error |-> "none"]
NoSaves == [streak |-> 0, reads |-> <<>>, out |-> <<>>]
Returned == [kind |-> "ok", v |-> 0, error |-> "none"]
Value(v) == [kind |-> "value", v |-> v, error |-> "none"]
Raised(error) == [kind |-> "raised", v |-> 0, error |-> error]

Exists(path) == path \in DOMAIN disk

\* The cells a caller reads: every cell of the raster, and one cell beyond each
\* of its four edges.
Cells(width, height) ==
    ((0 .. height - 1) \X (0 .. width - 1))
        \cup {<<-1, 0>>, <<0, -1>>, <<height, 0>>, <<0, width>>}

\* The cells a caller writes: every cell of the raster, and one cell outside.
WrittenCells(width, height) ==
    ((0 .. height - 1) \X (0 .. width - 1)) \cup {<<height, 0>>}

\* RasterIOfull.__init__
Construct(size, new) ==
    LET like == SourceFile(size[1], size[2]) IN
    /\ disk = ("like" :> like)
    /\ rasterlike = Raster("like", like)
    /\ raster = IF new THEN None ELSE <<Raster("like", like)>>
    /\ nodata = IF new THEN default ELSE like.nodata
    /\ fileout = IF new THEN "out" ELSE "like"
    /\ block = NoBlock
    /\ xblock = 0
    /\ yblock = 0
    /\ dict = EmptyDict
    /\ dictsize = 0

\* No call made yet, no save() running.
Fresh ==
    /\ pc = "idle"
    /\ caller = "none"
    /\ picklefile = None
    /\ filelist = <<>>
    /\ call = [op |-> "init", row |-> 0, col |-> 0, value |-> 0]
    /\ ret = NoReturn
    /\ ops = 0
    /\ everSet = {}
    /\ flushed = None
    /\ prevOut = None
    /\ assembledBy = "none"
    /\ orphans = {}
    /\ saves = NoSaves

Init ==
    /\ \E size \in GridSizes, new \in BOOLEAN : Construct(size, new)
    /\ Fresh
    /\ aux = None

\* ---------------------------------------------------------- getValue
\* OutOfRaster with the bounds off by one at the bottom and the right.
OutOfRasterLoose(row, col) ==
    row < 0 \/ col < 0 \/ row > rasterlike.height \/ col > rasterlike.width

OutOfRaster(row, col) ==
    row < 0 \/ col < 0 \/ row >= rasterlike.height \/ col >= rasterlike.width

InDict(row, col) == row \in DOMAIN dict /\ col \in DOMAIN dict[row]

OutOfBlock(row, col) ==
    \/ block.state = "none"
    \/ col < xblock
    \/ col >= xblock + blocksize
    \/ row < yblock
    \/ row >= yblock + blocksize

\* NewXBlock without the clamp at the raster's left edge.
NewXBlockUnclamped(col) == col - blocksize \div 2

\* Upper left cell of the block loaded for (row, col).
NewXBlock(col) == Max(0, col - blocksize \div 2)
NewYBlock(row) == Max(0, row - blocksize \div 2)

\* BlockMY without the clamp at the raster's bottom edge.
BlockMYUnclamped(r, yb) == r.YMax - (blocksize + yb) * meanCellHeight

\* Lower left corner of the block, in map units.
BlockMX(r, xb) == r.XMin + xb * meanCellWidth
BlockMY(r, yb) == Max(r.YMin, r.YMax - (blocksize + yb) * meanCellHeight)

\* The block loaded for (row, col) from the raster file.
LoadBlock(row, col) ==
    LET r == raster[1]
        xb == NewXBlock(col)
        yb == NewYBlock(row)
        lx == Min(xb + blocksize, r.width)
        ly == Min(yb + blocksize, r.height)
        array == RasterToNumPyArray(disk[r.path], BlockMX(r, xb), BlockMY(r, yb),
                                    lx - xb, ly - yb, nodata)
    IN  [state |-> "loaded", nrows |-> array.nrows, ncols |-> array.ncols,
         a |-> array.a]

\* value = self.block[row - self.yblock, col - self.xblock], the raster's NoData
\* value turned into self.nodata; an index outside the array raises.
ReadBlock(blk, yb, xb, row, col) ==
    LET p == <<row - yb, col - xb>> IN
    IF p \notin DOMAIN blk.a THEN Raised("IndexError")
    ELSE IF blk.a[p] = raster[1].noDataValue THEN Value(nodata)
    ELSE Value(blk.a[p])

\* getValue reaches the lines that load a new block.
LoadsBlock(row, col) ==
    /\ ~OutOfRaster(row, col)
    /\ ~InDict(row, col)
    /\ raster # None
    /\ block.state # "deleted"
    /\ OutOfBlock(row, col)

\* What getValue(row, col) returns in the current state. After a load that
\* failed, self.block is deleted and reading it raises.
getValueResult(row, col) ==
    IF OutOfRaster(row, col) THEN Value(nodata)
    ELSE IF InDict(row, col) THEN Value(dict[row][col])
    ELSE IF raster = None THEN Value(nodata)
    ELSE IF block.state = "deleted" THEN Raised("AttributeError")
    ELSE IF OutOfBlock(row, col)
         THEN IF Exists(raster[1].path)
              THEN ReadBlock(LoadBlock(row, col), NewYBlock(row), NewXBlock(col),
                             row, col)
              ELSE Raised("RuntimeError")
    ELSE ReadBlock(block, yblock, xblock, row, col)

\* What getValue returns in the current state, cell by cell.
Reads ==
    [p \in Cells(rasterlike.width, rasterlike.height) |->
       getValueResult(p[1], p[2])]

getValue(row, col) ==
    /\ pc = "idle"
    /\ ops < MaxOps
    /\ ops' = ops + 1
    /\ call' = [op |-> "getValue", row |-> row, col |-> col, value |-> 0]
    /\ ret' = getValueResult(row, col)
    /\ IF LoadsBlock(row, col)
       THEN /\ xblock' = NewXBlock(col)
            /\ yblock' = NewYBlock(row)
            /\ block' = IF Exists(raster[1].path) THEN LoadBlock(row, col)
                        ELSE DeletedBlock
       ELSE UNCHANGED <<block, xblock, yblock>>
    /\ flushed' = None
    /\ saves' = NoSaves
    /\ UNCHANGED <<rasterlike, raster, nodata, fileout, dict, dictsize, disk, pc,
                   caller, picklefile, filelist, everSet, prevOut, assembledBy,
                   orphans, aux>>

\* -------------------------------------------------------------- save
\* The first lines of save(): the dict is pickled and the tile loop starts.
EnterSave(who) ==
    /\ pc' = "tiles"
    /\ caller' = who
    /\ picklefile' = <<dict'>>
    /\ filelist' = <<>>
    /\ prevOut' = IF Exists(fileout) THEN <<disk[fileout]>> ELSE None
    /\ assembledBy' = "none"

\* An exception leaves save(), and setValue when it called save(): the pickle
\* file and the tiles written so far stay in the scratch workspace.
RaiseFromSave(error) ==
    /\ pc' = "idle"
    /\ caller' = "none"
    /\ ret' = Raised(error)
    /\ orphans' = orphans \cup (IF picklefile # None THEN {"pickle"} ELSE {})
                          \cup (IF filelist # <<>> THEN {"tile"} ELSE {})
    /\ picklefile' = None
    /\ filelist' = <<>>

\* MergeValue with += in place of the assignment.
MergeValueAdds(old, new) == old + new

\* myData[row - y, col - x] = dict[row][col]
MergeValue(old, new) == new

\* The tile worker (__main__) for the tile whose upper left cell is (tx, ty).
TileWorker(tx, ty, pickled) ==
    LET like == Raster(rasterlike.path, disk[rasterlike.path])
        mx == TileMX(like.XMin, tx)
        my == TileMY(like.YMin, like.YMax, ty, blocksize)
        lx == TileLX(tx, like.width, blocksize)
        ly == TileLY(ty, like.height, blocksize)
        myData == IF raster # None
                  THEN RasterToNumPyArray(disk[raster[1].path], mx, my,
                                          lx - tx, ly - ty, nodata)
                  ELSE [nrows |-> ly - ty, ncols |-> lx - tx,
                        a |-> [p \in (0 .. ly - ty - 1) \X (0 .. lx - tx - 1)
                                 |-> nodata]]
        merged == [p \in DOMAIN myData.a |->
                     LET row == p[1] + ty
                         col == p[2] + tx
                     IN  IF /\ row \in DOMAIN pickled
                            /\ col \in DOMAIN pickled[row]
                            /\ InTile(row, col, tx, ty, lx, ly)
                         THEN MergeValue(myData.a[p], pickled[row][col])
                         ELSE myData.a[p]]
    IN  NumPyArrayToRaster([myData EXCEPT !.a = merged], mx, my, nodata)

\* The files the worker opens exist.
WorkerCanRun ==
    /\ Exists(rasterlike.path)
    /\ raster # None => Exists(raster[1].path)

\* The passes of the tile loop of this raster.
Passes == TileOrigins(rasterlike.width, rasterlike.height, blocksize)

\* One pass of the loop body: the worker process ends normally.
SaveTile ==
    /\ pc = "tiles"
    /\ WorkerCanRun
    /\ LET xy == Passes[Len(filelist) + 1] IN
       filelist' = Append(filelist, TileWorker(xy[1], xy[2], picklefile[1]))
    /\ pc' = IF Len(filelist) + 1 = Len(Passes) THEN "publish" ELSE "tiles"
    /\ UNCHANGED <<rasterlike, raster, nodata, fileout, block, xblock, yblock,
                   dict, dictsize, disk, caller, picklefile, call, ret, ops,
                   everSet, flushed, prevOut, assembledBy, orphans, aux,
                   saves>>

\* SaveTileFails had the old output been deleted before the tile loop.
SaveTileFailsOutputDeleted ==
    /\ pc = "tiles"
    /\ RaiseFromSave("CalledProcessError")
    /\ disk' = [p \in DOMAIN disk \ {fileout} |-> disk[p]]
    /\ saves' = NoSaves
    /\ UNCHANGED <<rasterlike, raster, nodata, fileout, block, xblock, yblock,
                   dict, dictsize, call, ops, everSet, flushed, prevOut,
                   assembledBy, aux>>

\* SaveTileFails had setValue emptied the dict in a finally clause.
SaveTileFailsDictEmptied ==
    /\ pc = "tiles"
    /\ RaiseFromSave("CalledProcessError")
    /\ IF caller = "setValue"
       THEN dict' = EmptyDict /\ dictsize' = 0
       ELSE UNCHANGED <<dict, dictsize>>
    /\ saves' = NoSaves
    /\ UNCHANGED <<rasterlike, raster, nodata, fileout, block, xblock, yblock,
                   disk, call, ops, everSet, flushed, prevOut, assembledBy, aux>>

\* SaveTileFails had the worker's exit status been ignored (subprocess.call) and
\* the loop left: the tiles written so far go to the mosaic/copy.
SaveTileFailsIgnored ==
    /\ pc = "tiles"
    /\ filelist # <<>>
    /\ pc' = "publish"
    /\ UNCHANGED <<rasterlike, raster, nodata, fileout, block, xblock, yblock,
                   dict, dictsize, disk, caller, picklefile, filelist, call, ret,
                   ops, everSet, flushed, prevOut, assembledBy, orphans, aux,
                   saves>>

\* One pass of the loop body: the worker process fails and check_call raises.
SaveTileFails ==
    /\ pc = "tiles"
    /\ RaiseFromSave("CalledProcessError")
    /\ saves' = NoSaves
    /\ UNCHANGED <<rasterlike, raster, nodata, fileout, block, xblock, yblock,
                   dict, dictsize, disk, call, ops, everSet, flushed, prevOut,
                   assembledBy, aux>>

\* UsesMosaic with the test len(filelist) >= 1.
UsesMosaicAlways(files) == Len(files) >= 1

\* if len(filelist) > 1: the tiles are mosaicked; else the tile is copied.
UsesMosaic(files) == Len(files) > 1

Assemble(files) ==
    IF UsesMosaic(files) THEN MosaicToNewRaster(files) ELSE files[1]

\* After the loop: the pickle file and the old output are deleted, the tiles are
\* assembled at fileout and deleted, self.raster is opened on the new file, and
\* save() returns; setValue then empties the dict.
SavePublish ==
    /\ pc = "publish"
    /\ LET new == Assemble(filelist) IN
       /\ disk' = [p \in DOMAIN disk \cup {fileout} |->
                     IF p = fileout THEN new ELSE disk[p]]
       /\ raster' = <<Raster(fileout, new)>>
    /\ assembledBy' = IF UsesMosaic(filelist) THEN "mosaic" ELSE "copy"
    /\ flushed' = picklefile
    /\ picklefile' = None
    /\ filelist' = <<>>
    /\ IF caller = "setValue"
       THEN /\ dict' = EmptyDict
            /\ dictsize' = 0
       ELSE UNCHANGED <<dict, dictsize>>
    /\ pc' = "idle"
    /\ caller' = "none"
    /\ ret' = Returned
    /\ saves' = IF caller = "save"
                THEN [streak |-> saves.streak + 1, reads |-> saves.reads,
                      out |-> IF saves.streak = 0
                              THEN <<Assemble(filelist)>> ELSE saves.out]
                ELSE NoSaves
    /\ UNCHANGED <<rasterlike, nodata, fileout, block, xblock, yblock, call, ops,
                   everSet, prevOut, orphans, aux>>

\* SavePublishFails had save() dropped self.raster with the output it deleted.
SavePublishFailsDropsRaster ==
    /\ pc = "publish"
    /\ disk' = [p \in DOMAIN disk \ {fileout} |-> disk[p]]
    /\ raster' = None
    /\ assembledBy' = IF UsesMosaic(filelist) THEN "mosaic" ELSE "copy"
    /\ pc' = "idle"
    /\ caller' = "none"
    /\ ret' = Raised("ExecuteError")
    /\ orphans' = orphans \cup {"tile"}
    /\ picklefile' = None
    /\ filelist' = <<>>
    /\ saves' = NoSaves
    /\ UNCHANGED <<rasterlike, nodata, fileout, block, xblock, yblock,
                   dict, dictsize, call, ops, everSet, flushed, prevOut, aux>>

\* After the loop: the pickle file and the old output are deleted, then the
\* mosaic or the copy raises.
SavePublishFails ==
    /\ pc = "publish"
    /\ disk' = [p \in DOMAIN disk \ {fileout} |-> disk[p]]
    /\ assembledBy' = IF UsesMosaic(filelist) THEN "mosaic" ELSE "copy"
    /\ pc' = "idle"
    /\ caller' = "none"
    /\ ret' = Raised("ExecuteError")
    /\ orphans' = orphans \cup {"tile"}
    /\ picklefile' = None
    /\ filelist' = <<>>
    /\ saves' = NoSaves
    /\ UNCHANGED <<rasterlike, raster, nodata, fileout, block, xblock, yblock,
                   dict, dictsize, call, ops, everSet, flushed, prevOut, aux>>

\* save() called by the user.
save ==
    /\ pc = "idle"
    /\ ops < MaxOps
    /\ ops' = ops + 1
    /\ call' = [op |-> "save", row |-> 0, col |-> 0, value |-> 0]
    /\ ret' = NoReturn
    /\ flushed' = None
    /\ UNCHANGED <<dict, dictsize>>
    /\ EnterSave("save")
    /\ saves' = IF saves.streak >= 1 THEN saves
                ELSE [streak |-> 0, reads |-> <<Reads>>, out |-> None]
    /\ UNCHANGED <<rasterlike, raster, nodata, fileout, block, xblock, yblock,
                   disk, everSet, orphans, aux>>

\* ---------------------------------------------------------- setValue
\* self.dict after dict[row].update({col: value})
DictUpdate(row, col, value) ==
    LET withRow == IF row \in DOMAIN dict THEN dict
                   ELSE [r \in DOMAIN dict \cup {row} |->
                           IF r = row THEN EmptyRow ELSE dict[r]]
    IN  [withRow EXCEPT ![row] =
            [c \in DOMAIN withRow[row] \cup {col} |->
               IF c = col THEN value ELSE withRow[row][c]]]

\* NewDictSize without the test: every call counts.
NewDictSizeAlways(row, col) == dictsize + 1

\* self.dictsize after setValue(row, col, .): one more for a new key.
NewDictSize(row, col) == IF InDict(row, col) THEN dictsize ELSE dictsize + 1

\* TooBig with the test dictsize >= blocksize*blocksize/2.
TooBigAtThreshold(size) == size >= (blocksize * blocksize) \div 2

\* The dict is too big: save() is called.
TooBig(size) == size > (blocksize * blocksize) \div 2

setValue(row, col, value) ==
    /\ pc = "idle"
    /\ ops < MaxOps
    /\ ops' = ops + 1
    /\ call' = [op |-> "setValue", row |-> row, col |-> col, value |-> value]
    /\ dictsize' = NewDictSize(row, col)
    /\ dict' = DictUpdate(row, col, value)
    /\ everSet' = everSet \cup {<<row, col>>}
    /\ flushed' = None
    /\ IF TooBig(dictsize')
       THEN /\ EnterSave("setValue")
            /\ ret' = NoReturn
       ELSE /\ ret' = Returned
            /\ UNCHANGED <<pc, caller, picklefile, filelist, prevOut, assembledBy>>
    /\ saves' = NoSaves
    /\ UNCHANGED <<rasterlike, raster, nodata, fileout, block, xblock, yblock,
                   disk, orphans, aux>>

\* ----------------------------------------------------- specification
Next ==
    \/ \E p \in Cells(rasterlike.width, rasterlike.height) : getValue(p[1], p[2])
    \/ \E p \in WrittenCells(rasterlike.width, rasterlike.height), value \in Values :
           setValue(p[1], p[2], value)
    \/ save
    \/ SaveTile
    \/ SaveTileFails
    \/ SavePublish
    \/ SavePublishFails

Spec == Init /\ [][Next]_vars

\* ------------------------------------------------------------ claims
\* The value the file at path holds for cell (row, col) of the raster, read from
\* the file by the cell's map coordinates (not through the block or the dict);
\* a NoData cell reads as the file's NoData value.
ReadFile(path, row, col) ==
    LET file == disk[path]
        hit == FileCellAt(file, rasterlike.XMin + col * meanCellWidth,
                          rasterlike.YMax - (row + 1) * meanCellHeight)
    IN  IF hit[1] THEN hit[2] ELSE file.nodata

\* The cell (row, col) is a cell of the raster.
InRaster(row, col) ==
    row \in 0 .. rasterlike.height - 1 /\ col \in 0 .. rasterlike.width - 1

\* A call has returned normally and no save() is running.
ReturnedFrom(op) == pc = "idle" /\ call.op = op /\ ret.kind \in {"ok", "value"}

\* The save() that just returned was called by setValue / by the user.
JustFlushed == pc = "idle" /\ flushed # None /\ ret = Returned

\* C1: in the windowed strategy, setValue(r, c, v) on an in-bounds cell followed
\* immediately by getValue(r, c) returns v, whether or not that setValue call
\* flushed, also when a block covering (r, c) was loaded before the flush.
\* (Stated for callers that only ever write cells of the raster.)
C1_WriteThenRead ==
    (/\ ReturnedFrom("setValue")
     /\ InRaster(call.row, call.col)
     /\ \A p \in everSet : InRaster(p[1], p[2]))
        => getValueResult(call.row, call.col) = Value(call.value)

\* C2: after save() completes, every in-bounds entry (r, c) -> v of the dict that
\* save() started with is the value the new output file holds at (r, c), in
\* full and in clipped tiles, with and without a raster to start from.
C2_FlushComplete ==
    JustFlushed =>
        /\ Exists(fileout)
        /\ \A row \in DOMAIN flushed[1] : \A col \in DOMAIN flushed[1][row] :
               InRaster(row, col)
                   => ReadFile(fileout, row, col) = flushed[1][row][col]

\* C2 happens: a save() of a raster to create has written an entry that lies in
\* a clipped tile at the right or bottom edge.
C2_Witness ==
    /\ JustFlushed
    /\ fileout = "out"
    /\ \E row \in DOMAIN flushed[1] : \E col \in DOMAIN flushed[1][row] :
           /\ InRaster(row, col)
           /\ row >= blocksize \/ col >= blocksize

\* C3: immediately after any save() returns, called by the user or by setValue,
\* the dict is empty and dictsize is 0.
C3_OverlayEmptyAfterSave ==
    JustFlushed => (dict = EmptyDict /\ dictsize = 0)

\* C4: getValue of a cell outside the raster returns self.nodata in every state,
\* whatever the dict holds (an entry for that very cell included) and whatever
\* block is loaded, and does not load a block.
C4_OutsideIsNoData ==
    /\ \A row \in -1 .. rasterlike.height : \A col \in -1 .. rasterlike.width :
           ~InRaster(row, col) =>
               /\ getValueResult(row, col) = Value(nodata)
               /\ ~LoadsBlock(row, col)
    /\ (pc = "idle" /\ call.op = "getValue" /\ ~InRaster(call.row, call.col))
           => ret = Value(nodata)

\* C4 happens: getValue has been called on a cell outside the raster for which
\* the dict holds an entry, with a block loaded.
C4_Witness ==
    /\ ReturnedFrom("getValue")
    /\ ~InRaster(call.row, call.col)
    /\ InDict(call.row, call.col)
    /\ block.state = "loaded"

\* What a cell never set holds: the value of the raster the instance was opened
\* on (its NoData value read as self.nodata), self.nodata for a raster to create.
NeverSetValue(row, col) ==
    IF fileout = "like"
    THEN LET v == SourceArray(rasterlike.width, rasterlike.height)[<<row, col>>]
         IN  IF v = noDataValue THEN nodata ELSE v
    ELSE nodata

\* C5: for every in-bounds cell never passed to setValue, getValue returns the
\* value of the backing raster there (its NoData as self.nodata), or self.nodata
\* when there is no backing raster, wherever the cell lies relative to the block
\* and in whatever order cells are read. (getValue raises only when the file of
\* the backing raster is gone.)
C5_NeverSetReadsBacking ==
    \A row \in 0 .. rasterlike.height - 1 : \A col \in 0 .. rasterlike.width - 1 :
        (pc = "idle" /\ <<row, col>> \notin everSet) =>
            LET got == getValueResult(row, col) IN
            /\ (raster = None \/ Exists(raster[1].path)) =>
                   got = Value(IF raster = None THEN nodata
                               ELSE IF ReadFile(raster[1].path, row, col)
                                         = raster[1].noDataValue
                               THEN nodata
                               ELSE ReadFile(raster[1].path, row, col))
            /\ got.kind = "value" => got.v = NeverSetValue(row, col)
            /\ (call.op = "getValue" /\ call.row = row /\ call.col = col
                    /\ ret.kind = "value") => ret.v = NeverSetValue(row, col)

\* C5 happens: a cell never set, in the last row or column of a block clipped at
\* the raster's edge, was read from a block loaded for another cell after a
\* save() rewrote the file.
C5_Witness ==
    /\ ReturnedFrom("getValue")
    /\ InRaster(call.row, call.col)
    /\ <<call.row, call.col>> \notin everSet
    /\ block.state = "loaded"
    /\ assembledBy # "none"
    /\ call.row = rasterlike.height - 1
    /\ call.col = rasterlike.width - 1
    /\ call.row > yblock \/ call.col > xblock
    /\ ret.v # nodata

\* C6: a setValue call that raises dictsize above blocksize*blocksize/2 runs
\* save() and then empties the dict; when setValue has returned dictsize is at
\* most blocksize*blocksize/2; setValue runs no save() at or below that.
C6_AutomaticFlush ==
    /\ ReturnedFrom("setValue") => 2 * dictsize <= blocksize * blocksize
    /\ caller = "setValue" => 2 * dictsize > blocksize * blocksize
    /\ (JustFlushed /\ call.op = "setValue") => (dict = EmptyDict /\ dictsize = 0)

\* C6 happens: a setValue call has flushed and returned.
C6_Witness == JustFlushed /\ call.op = "setValue"

\* C8: a save() that fails at any step, a tile worker or the mosaic/copy, leaves
\* the output file that existed before the call in place with its contents.
C8_FailedSaveKeepsOutput ==
    (pc = "idle" /\ call.op \in {"save", "setValue"} /\ ret.kind = "raised"
         /\ prevOut # None)
        => (Exists(fileout) /\ disk[fileout] = prevOut[1])

\* C8 as amended: a save() that fails because a tile worker fails leaves the
\* output file that existed before the call in place with its contents; the old
\* file is deleted before the mosaic/copy, so when that step fails the previous
\* output file is gone.
C8_WorkerFailureKeepsOutput ==
    /\ (pc = "idle" /\ ret = Raised("CalledProcessError") /\ prevOut # None)
           => (Exists(fileout) /\ disk[fileout] = prevOut[1])
    /\ (pc = "idle" /\ ret = Raised("ExecuteError")) => ~Exists(fileout)

\* C8 happens: a tile worker failed after an earlier tile was written, in a
\* save() that started with an output file in place.
C8_Witness ==
    /\ pc = "idle"
    /\ ret = Raised("CalledProcessError")
    /\ prevOut # None
    /\ "tile" \in orphans

\* C9: a raster that fits in one tile is flushed by copying its single tile
\* file, never by the mosaic; the mosaic runs exactly when save() produced more
\* than one tile.
C9_SingleTileIsCopied ==
    LET oneTile == rasterlike.width <= blocksize /\ rasterlike.height <= blocksize
    IN  /\ pc = "publish" => (Len(filelist) = 1 <=> oneTile)
        /\ assembledBy = "copy" => oneTile
        /\ assembledBy = "mosaic" => ~oneTile

\* C9 happens: a save() of a raster that fits in one tile has returned.
C9_Witness ==
    /\ JustFlushed
    /\ assembledBy = "copy"
    /\ rasterlike.width <= blocksize
    /\ rasterlike.height <= blocksize

\* ------------------------------------------- the tile layout, alone
\* Largest width and height, and largest blocksize, of the layouts explored.
MaxSide == 5
MaxBlock == 4

\* SpecTiles and SpecMatch leave the RasterIOfull instance alone.
Idle ==
    UNCHANGED <<rasterlike, raster, nodata, fileout, block, xblock, yblock, dict,
                dictsize, disk, pc, caller, picklefile, filelist, call, ret, ops,
                everSet, flushed, prevOut, assembledBy, orphans, saves>>

InitTiles ==
    /\ Construct(<<1, 1>>, TRUE)
    /\ Fresh
    /\ \E width \in 1 .. MaxSide, height \in 1 .. MaxSide, bs \in 1 .. MaxBlock :
           aux = [width |-> width, height |-> height, blocksize |-> bs,
                  tiles |-> <<>>]

\* One pass of save()'s loops: the tile the worker of this pass writes.
TilePass ==
    /\ Len(aux.tiles) < Len(TileOrigins(aux.width, aux.height, aux.blocksize))
    /\ LET xy == TileOrigins(aux.width, aux.height, aux.blocksize)[Len(aux.tiles) + 1]
           ymax == YMin + aux.height * meanCellHeight
       IN  aux' = [aux EXCEPT !.tiles = Append(@,
                     [x |-> xy[1], y |-> xy[2],
                      lx |-> TileLX(xy[1], aux.width, aux.blocksize),
                      ly |-> TileLY(xy[2], aux.height, aux.blocksize),
                      mx |-> TileMX(XMin, xy[1]),
                      my |-> TileMY(YMin, ymax, xy[2], aux.blocksize)])]
    /\ Idle

SpecTiles == InitTiles /\ [][TilePass]_vars

\* The loops of save() have ended.
TilesDone ==
    Len(aux.tiles) = Len(TileOrigins(aux.width, aux.height, aux.blocksize))

\* The tile covers, on the map, the cell (row, col) of the raster.
CoversOnMap(t, row, col) ==
    LET cx == XMin + col * meanCellWidth
        cy == YMin + (aux.height - row - 1) * meanCellHeight
    IN  /\ t.mx <= cx /\ cx < t.mx + (t.lx - t.x) * meanCellWidth
        /\ t.my <= cy /\ cy < t.my + (t.ly - t.y) * meanCellHeight

\* The tiles of the scenario: a 10000 x 10000 raster, blocksize 4096.
ScenarioTiles ==
    LET o == TileOrigins(10000, 10000, 4096) IN
    /\ Len(o) = 9
    /\ {<<o[k][1], o[k][2], TileLX(o[k][1], 10000, 4096) - 1,
          TileLY(o[k][2], 10000, 4096) - 1>> : k \in 1 .. 9}
         = {<<px, py, IF px = 8192 THEN 9999 ELSE px + 4095,
              IF py = 8192 THEN 9999 ELSE py + 4095>> :
                px \in {0, 4096, 8192}, py \in {0, 4096, 8192}}

\* C7: for every width, height and blocksize >= 1 the tiles of save() partition
\* the raster: every cell lies in exactly one tile, every tile lies inside the
\* raster (edge tiles are clipped), there are ceil(width/blocksize) *
\* ceil(height/blocksize) tiles (9 for 10000 x 10000 and 4096), and the tiles
\* assemble to exactly width x height cells.
C7_TilesPartition ==
    LET w == aux.width
        h == aux.height
        bs == aux.blocksize
        n == Len(aux.tiles)
        t(k) == aux.tiles[k]
    IN  /\ \A k \in 1 .. n :
               /\ 0 <= t(k).x /\ t(k).x < t(k).lx /\ t(k).lx <= w
               /\ 0 <= t(k).y /\ t(k).y < t(k).ly /\ t(k).ly <= h
               /\ t(k).lx - t(k).x <= bs /\ t(k).ly - t(k).y <= bs
               /\ XMin <= t(k).mx
               /\ t(k).mx + (t(k).lx - t(k).x) * meanCellWidth
                      <= XMin + w * meanCellWidth
               /\ YMin <= t(k).my
               /\ t(k).my + (t(k).ly - t(k).y) * meanCellHeight
                      <= YMin + h * meanCellHeight
        /\ TilesDone =>
               /\ n = ((w + bs - 1) \div bs) * ((h + bs - 1) \div bs)
               /\ \A row \in 0 .. h - 1 : \A col \in 0 .. w - 1 :
                      \E k \in 1 .. n :
                          /\ InTile(row, col, t(k).x, t(k).y, t(k).lx, t(k).ly)
                          /\ CoversOnMap(t(k), row, col)
                          /\ \A j \in 1 .. n :
                                 (\/ InTile(row, col, t(j).x, t(j).y, t(j).lx, t(j).ly)
                                  \/ CoversOnMap(t(j), row, col)) => j = k
               /\ \E k \in 1 .. n : t(k).lx = w
               /\ \E k \in 1 .. n : t(k).ly = h
               /\ \E k \in 1 .. n : t(k).mx = XMin
               /\ \E k \in 1 .. n : t(k).my = YMin
        /\ ScenarioTiles

\* C7 happens: the loops have ended on a raster whose sides are no multiple of
\* the blocksize, with tiles clipped at the right and at the bottom.
C7_Witness ==
    /\ TilesDone
    /\ aux.width % aux.blocksize # 0
    /\ aux.height % aux.blocksize # 0
    /\ aux.width > aux.blocksize
    /\ aux.height > aux.blocksize

\* -------------------------------------------------- checkMatch, alone
\* Extents are fixed-point numbers, in units of 0.0001; XMin within +-MaxCoord.
MaxCoord == 130

\* round(v, 3) of Python 2 on a value in units of 0.0001: to the nearest
\* multiple of 0.001, halves away from zero.
Round3(v) ==
    IF v >= 0 THEN ((v + 5) \div 10) * 10 ELSE -(((5 - v) \div 10) * 10)

\* The condition under which checkMatch raises.
Mismatch(self, other) ==
    \/ Round3(self.XMin) # Round3(other.XMin)
    \/ Round3(self.YMin) # Round3(other.YMin)
    \/ Round3(self.XMax) # Round3(other.XMax)
    \/ Round3(self.YMax) # Round3(other.YMax)
    \/ self.height # other.height
    \/ self.width # other.width

\* Two rasters: the second is the first with XMin moved by 0, 0.0001 or 0.01,
\* and possibly one more field changed.
InitMatch ==
    /\ Construct(<<1, 1>>, TRUE)
    /\ Fresh
    /\ \E xmin \in -MaxCoord .. MaxCoord, d \in {-100, -1, 0, 1, 100},
          field \in {"none", "YMin", "XMax", "YMax", "height", "width"} :
           LET self == [XMin |-> xmin, YMin |-> 200000, XMax |-> 1000000,
                        YMax |-> 500000, height |-> 3, width |-> 4]
               moved == [self EXCEPT !.XMin = xmin + d]
               other == CASE field = "none" -> moved
                          [] field = "YMin" -> [moved EXCEPT !.YMin = @ + 100]
                          [] field = "XMax" -> [moved EXCEPT !.XMax = @ + 100]
                          [] field = "YMax" -> [moved EXCEPT !.YMax = @ + 100]
                          [] field = "height" -> [moved EXCEPT !.height = @ + 1]
                          [] field = "width" -> [moved EXCEPT !.width = @ + 1]
           IN  aux = [self |-> self, other |-> other, raised |-> "none"]

\* RasterIO.checkMatch
checkMatch ==
    /\ aux.raised = "none"
    /\ aux' = [aux EXCEPT !.raised =
                 IF Mismatch(aux.self, aux.other) THEN "yes" ELSE "no"]
    /\ Idle

SpecMatch == InitMatch /\ [][checkMatch]_vars

\* C10: on two rasters with the same width, height, YMin, XMax and YMax,
\* checkMatch raises whenever the XMin values differ by 0.01 and never when they
\* differ by 0.0001.
C10_MatchTolerance ==
    LET d == aux.other.XMin - aux.self.XMin IN
    (/\ aux.raised # "none"
     /\ [aux.other EXCEPT !.XMin = aux.self.XMin] = aux.self)
        => /\ d \in {-100, 100} => aux.raised = "yes"
           /\ d \in {-1, 1} => aux.raised = "no"

\* ------------------------------------------- claims on save(), continued
\* The value a file holds for cell (row, col) of the raster, read by the cell's
\* map coordinates; a NoData cell reads as the file's NoData value.
ReadCellOf(file, row, col) ==
    LET hit == FileCellAt(file, rasterlike.XMin + col * meanCellWidth,
                          rasterlike.YMax - (row + 1) * meanCellHeight)
    IN  IF hit[1] THEN hit[2] ELSE file.nodata

\* The pickled dict of the save() that just returned has an entry for the cell.
WasFlushed(row, col) ==
    flushed # None /\ row \in DOMAIN flushed[1] /\ col \in DOMAIN flushed[1][row]

\* C11: a save() that returns changes only the cells the dict had an entry for:
\* every other in-bounds cell holds in the new output file the value the backing
\* raster (the file at fileout when there is one) held before the save, and
\* self.nodata when there was no backing raster; so what an earlier save() wrote
\* survives a later one, also for a raster to create.
C11_FlushFrame ==
    /\ raster # None => raster[1].path = fileout
    /\ JustFlushed =>
           \A row \in 0 .. rasterlike.height - 1 :
               \A col \in 0 .. rasterlike.width - 1 :
                   ~WasFlushed(row, col) =>
                       ReadFile(fileout, row, col)
                           = IF prevOut = None THEN nodata
                             ELSE ReadCellOf(prevOut[1], row, col)

\* C11 happens: a later save() of a raster to create has returned, and a cell
\* it had no entry for still holds a value that an earlier save() wrote.
C11_Witness ==
    /\ JustFlushed
    /\ fileout = "out"
    /\ prevOut # None
    /\ \E p \in everSet :
           /\ InRaster(p[1], p[2])
           /\ ~WasFlushed(p[1], p[2])
           /\ ReadFile(fileout, p[1], p[2]) \in Values

\* C12: when a save() ends, by returning or by raising (a tile worker failed
\* after earlier tiles were written, or the mosaic/copy failed), none of the
\* tile files and not the pickle file it created is left on disk.
C12_NoScratchLeft ==
    pc = "idle" => orphans = {}

\* C13: when a tile worker fails the save() is abandoned: the very step raises
\* (the one that leaves the tile loop with a pass not done) raises
\* CalledProcessError to the caller of save(), or of setValue when it called
\* save(); no other worker is started and the worker is not run again (no
\* save() is running any more and no new call was issued), the mosaic/copy is
\* not run (it runs only with the tile of every pass written), and self.raster
\* and the files on disk are as they were.
C13_WorkerFailureAborts ==
    /\ [](pc = "publish" => Len(filelist) = Len(Passes))
    /\ []((pc = "idle" /\ ret = Raised("CalledProcessError"))
             => (call.op \in {"save", "setValue"} /\ assembledBy = "none"))
    /\ [][(pc = "tiles" /\ pc' # "tiles" /\ Len(filelist') # Len(Passes))
             => /\ pc' = "idle"
                /\ ret' = Raised("CalledProcessError")
                /\ raster' = raster
                /\ disk' = disk
                /\ call' = call
                /\ ops' = ops]_vars

\* C13 happens: the save() called by setValue was abandoned on a worker that
\* failed after an earlier tile was written.
C13_Witness ==
    /\ pc = "idle"
    /\ ret = Raised("CalledProcessError")
    /\ call.op = "setValue"
    /\ "tile" \in orphans
    /\ "pickle" \in orphans

\* ------------------------------------ the tile workers, in any order
\* (width, height) of the rasters whose workers are run in any order: four
\* tiles, and two tiles side by side or one above the other.
OrderSizes == {<<3, 3>>, <<3, 1>>, <<1, 3>>}

\* self.dict holding value v at cell p, then value w at cell q.
DictOf(p, v, q, w) ==
    [r \in {p[1], q[1]} |->
       [c \in {e[2] : e \in {f \in {p, q} : f[1] = r}} |->
          IF <<r, c>> = q THEN w ELSE v]]

\* save() has pickled a dict of one or two entries and enters the tile loop.
InitOrder ==
    /\ \E size \in OrderSizes, new \in BOOLEAN :
           /\ Construct(size, new)
           /\ \E p \in WrittenCells(size[1], size[2]),
                 q \in WrittenCells(size[1], size[2]), v \in Values, w \in Values :
                  /\ picklefile = <<DictOf(p, v, q, w)>>
                  /\ everSet = {p, q}
    /\ pc = "tiles"
    /\ caller = "save"
    /\ filelist = <<>>
    /\ call = [op |-> "save", row |-> 0, col |-> 0, value |-> 0]
    /\ ret = NoReturn
    /\ ops = 1
    /\ flushed = None
    /\ prevOut = IF Exists(fileout) THEN <<disk[fileout]>> ELSE None
    /\ assembledBy = "none"
    /\ orphans = {}
    /\ saves = NoSaves
    /\ aux = [order |-> <<>>, files |-> <<>>, out |-> None]

\* The worker of pass k ends, whichever workers ended before it; its tile file
\* joins the list.
WorkerEnds(k) ==
    /\ aux.out = None
    /\ \A i \in 1 .. Len(aux.order) : aux.order[i] # k
    /\ aux' = [aux EXCEPT
                 !.order = Append(@, k),
                 !.files = Append(@, TileWorker(Passes[k][1], Passes[k][2],
                                                picklefile[1]))]
    /\ Idle

\* Every worker has ended: the tile files are assembled in the order of the list.
AssembleTiles ==
    /\ aux.out = None
    /\ Len(aux.order) = Len(Passes)
    /\ aux' = [aux EXCEPT !.out = <<Assemble(aux.files)>>]
    /\ Idle

NextOrder ==
    \/ \E k \in 1 .. Len(Passes) : WorkerEnds(k)
    \/ AssembleTiles

SpecOrder == InitOrder /\ [][NextOrder]_vars

\* The tile files of save() as its loops write them, pass after pass.
LoopOrderFiles ==
    [k \in 1 .. Len(Passes) |->
       TileWorker(Passes[k][1], Passes[k][2], picklefile[1])]

\* The file covers the cells of the tile whose upper left cell is (tx, ty), and
\* no other cell.
CoversOwnTile(file, tx, ty) ==
    /\ file.xmin = rasterlike.XMin + tx * meanCellWidth
    /\ file.ncols = Min(blocksize, rasterlike.width - tx)
    /\ file.nrows = Min(blocksize, rasterlike.height - ty)
    /\ file.ymin + file.nrows * meanCellHeight
           = rasterlike.YMax - ty * meanCellHeight

\* C14: what a save() persists does not depend on the order in which the tile
\* workers run and end: each worker reads only the backing raster and the
\* pickled dict and writes only the cells of its own tile, so the tile files
\* assembled in any order give the file that the loop order gives.
C14_AnyOrderSameOutput ==
    /\ \A i \in 1 .. Len(aux.files) :
           CoversOwnTile(aux.files[i], Passes[aux.order[i]][1],
                         Passes[aux.order[i]][2])
    /\ aux.out # None => aux.out[1] = Assemble(LoopOrderFiles)

\* C14 happens: four workers ended in another order than the loop order, on a
\* backing raster, with dict entries in two different tiles, and the tile files
\* were assembled.
C14_Witness ==
    /\ aux.out # None
    /\ Len(Passes) = 4
    /\ aux.order = <<3, 1, 4, 2>>
    /\ raster # None
    /\ \E p \in everSet, q \in everSet :
           /\ InRaster(p[1], p[2]) /\ InRaster(q[1], q[2])
           /\ p[1] < blocksize /\ q[1] >= blocksize

\* ------------------------------------------------ claims on the block
\* The block, or its place, changes in this step.
BlockReplaced == <<block, xblock, yblock>>' # <<block, xblock, yblock>>

\* C15: with a backing raster, a loaded block starts at
\* (max(0, row - blocksize/2), max(0, col - blocksize/2)) for the cell (row, col)
\* whose read loaded it, lies inside the raster, has at most blocksize rows and
\* columns and holds that cell, so no read indexes the block outside its array;
\* the block is replaced only by a getValue of an in-bounds cell that has no
\* dict entry and lies outside the current block.
C15_BlockInvariant ==
    /\ [](block.state = "loaded" =>
            /\ raster # None
            /\ xblock >= 0 /\ yblock >= 0
            /\ block.ncols >= 1 /\ block.nrows >= 1
            /\ block.ncols <= blocksize /\ block.nrows <= blocksize
            /\ xblock + block.ncols <= rasterlike.width
            /\ yblock + block.nrows <= rasterlike.height
            /\ DOMAIN block.a
                   = (0 .. block.nrows - 1) \X (0 .. block.ncols - 1))
    /\ [](/\ ret.error # "IndexError"
          /\ \A row \in 0 .. rasterlike.height - 1 :
                 \A col \in 0 .. rasterlike.width - 1 :
                     getValueResult(row, col).error # "IndexError")
    /\ [][BlockReplaced =>
            /\ pc = "idle" /\ pc' = "idle"
            /\ call'.op = "getValue"
            /\ InRaster(call'.row, call'.col)
            /\ ~InDict(call'.row, call'.col)
            /\ raster # None
            /\ \/ block.state = "none"
               \/ call'.col \notin xblock .. xblock + blocksize - 1
               \/ call'.row \notin yblock .. yblock + blocksize - 1
            /\ xblock' = Max(0, call'.col - blocksize \div 2)
            /\ yblock' = Max(0, call'.row - blocksize \div 2)
            /\ block'.state = "loaded" =>
                   /\ call'.row - yblock' \in 0 .. block'.nrows - 1
                   /\ call'.col - xblock' \in 0 .. block'.ncols - 1]_vars

\* C15 happens: a read has loaded a block that starts beyond the raster's first
\* row or column and is clipped at the raster's edge, and the cell read is not
\* the block's first cell.
C15_Witness ==
    /\ ReturnedFrom("getValue")
    /\ block.state = "loaded"
    /\ xblock + yblock > 0
    /\ block.ncols * block.nrows < blocksize * blocksize
    /\ call.row = yblock + 1 \/ call.col = xblock + 1

\* ------------------------------------- claims on the dict and the raster
\* The number of (row, col) keys of self.dict.
DictKeys == {<<row, col>> \in (-1 .. rasterlike.height) \X (-1 .. rasterlike.width) :
                InDict(row, col)}

\* C16: in every state dictsize is the number of distinct (row, col) keys of the
\* dict: setValue counts a key when it first inserts it and not when it
\* overwrites it, and dictsize is reset only together with the dict.
C16_DictsizeCountsKeys ==
    /\ dictsize = Cardinality(DictKeys)
    /\ \A row \in DOMAIN dict : \A col \in DOMAIN dict[row] :
           <<row, col>> \in DictKeys
    /\ dictsize = 0 <=> dict = EmptyDict

\* C16 happens: setValue has returned with two keys in the dict and calls to
\* spare: with five calls made, one has written a key again or has read.
C16_Witness ==
    /\ ReturnedFrom("setValue")
    /\ dictsize = 2
    /\ ops = MaxOps
    /\ assembledBy = "none"
    /\ everSet = DictKeys

\* The instance was created for a raster to create and has no backing raster.
HoldsOutputParameters ==
    raster = None /\ fileout # rasterlike.path /\ nodata = default

\* C17: in every state exactly one holds: the instance has a backing raster
\* (self.raster), or it holds the parameters of a raster to create (the path
\* fileout given to the constructor and the default NoData value) and has no
\* backing raster.
C17_BackingOrOutput ==
    /\ raster # None \/ HoldsOutputParameters
    /\ ~(raster # None /\ HoldsOutputParameters)
    /\ raster # None => Len(raster) = 1 /\ raster[1].path = fileout

\* C17 happens: the first save() of a raster to create has returned and the
\* instance now has the new file as backing raster.
C17_Witness ==
    /\ JustFlushed
    /\ nodata = default
    /\ raster # None
    /\ raster[1].path = "out"

\* C18: whenever a block is loaded it holds what the current backing raster
\* holds over the block's cells; a block loaded before a save() is not served
\* after that save() has rewritten the file.
C18_BlockCoherent ==
    (block.state = "loaded" /\ raster # None /\ Exists(raster[1].path)) =>
        \A p \in DOMAIN block.a :
            block.a[p] = ReadFile(raster[1].path, yblock + p[1], xblock + p[2])

\* C19: when the save() run by setValue fails, the dict and dictsize stay as
\* they were after the insertion: the failing step leaves them alone, the value
\* just set and every other entry is what getValue returns, and the next save()
\* pickles them all.
C19_FailedFlushKeepsDict ==
    /\ []((pc = "idle" /\ call.op = "setValue" /\ ret.kind = "raised") =>
            /\ InDict(call.row, call.col)
            /\ dict[call.row][call.col] = call.value
            /\ TooBig(dictsize)
            /\ \A p \in DictKeys :
                   InRaster(p[1], p[2])
                       => getValueResult(p[1], p[2]) = Value(dict[p[1]][p[2]]))
    /\ [][(caller = "setValue" /\ ret'.kind = "raised")
             => (dict' = dict /\ dictsize' = dictsize)]_vars
    /\ [][(pc = "idle" /\ pc' = "tiles") => picklefile' = <<dict'>>]_vars

\* C19 happens: the save() run by setValue failed, and the setValue after it
\* has started a save() that pickled the entries of both calls.
C19_Witness ==
    /\ pc = "tiles"
    /\ caller = "setValue"
    /\ "pickle" \in orphans
    /\ picklefile # None
    /\ Cardinality(DictKeys) > (blocksize * blocksize) \div 2 + 1

\* ------------------------------------------- claims on repeated saves
\* C20: save() called twice in a row, with no call in between, leaves in the
\* output file the cell values the first call left, and getValue returns for
\* every cell the same value before the first save(), between the two and after
\* the second.
C20_SaveTwiceSame ==
    /\ (pc = "idle" /\ saves.streak >= 1) =>
           \A p \in Cells(rasterlike.width, rasterlike.height) :
               getValueResult(p[1], p[2]) = saves.reads[1][p]
    /\ (pc = "idle" /\ saves.streak >= 2) =>
           /\ Exists(fileout)
           /\ disk[fileout].ncols = saves.out[1].ncols
           /\ disk[fileout].nrows = saves.out[1].nrows
           /\ \A row \in 0 .. rasterlike.height - 1 :
                  \A col \in 0 .. rasterlike.width - 1 :
                      ReadFile(fileout, row, col)
                          = ReadCellOf(saves.out[1], row, col)

\* C20 happens: two save() calls in a row have returned, with a dict entry for
\* a cell of the raster, tiles mosaicked, and a block loaded before them.
C20_Witness ==
    /\ pc = "idle"
    /\ saves.streak = 2
    /\ assembledBy = "mosaic"
    /\ block.state = "loaded"
    /\ \E p \in DictKeys : InRaster(p[1], p[2])

====
